---- MODULE Spec2Model ----
(***************************************************************************)
(* LangGraphTranslationPipeline                                            *)
(* (src/src/wordnet_autotranslate/pipelines/langgraph_translation_pipeline *)
(* .py): one translate_synset run as a state machine.  A step is one       *)
(* attempt of _call_llm inside the current graph node, together with the   *)
(* node's prologue when it is the node's first attempt and the node's      *)
(* epilogue when _call_llm returns.                                        *)
(*                                                                         *)
(* Python values are tagged records: [t |-> "null"], [t |-> "str", v |->   *)
(* <<chars>>], [t |-> "num", v |-> n], [t |-> "list", v |-> <<values>>],   *)
(* [t |-> "dict", v |-> [key |-> value]].  A str is the sequence of its    *)
(* characters; the keys of a dict value are tagged values.  A payload (a   *)
(* Python dict at top level) is a function from key names to tagged values.*)
(***************************************************************************)
EXTENDS Integers, Sequences, FiniteSets, TLC

VARIABLES
  state,                     \* the TranslationGraphState of the run
  pc,                        \* the graph node to run next
  attempt,                   \* loop variable of _call_llm
  locals,                    \* local variables of _expand_synonyms
  max_expansion_iterations,  \* self.max_expansion_iterations
  invocations,               \* number of llm.invoke calls of the run
  visits,                    \* node |-> number of times the node was started
  attempts_log,              \* the passes of the latest _call_llm call
  last_call,                 \* what the latest finished _call_llm returned
  backend,                   \* how the backend of the run misbehaves
  deviations,                \* responses of the run that were not Expected
  ws,                        \* argument of a _deduplicate_compounds call
  cleaned,                   \* what the calls returned, in order
  passes,                    \* number of times _deduplicate_compounds was applied
  llm_text,                  \* argument of a _decode_llm_payload call
  llm_payload,               \* what the call returned
  json_repair,               \* what the optional json_repair module did in the call
  batch,                     \* argument of a translate or translate_stream call
  entry_point,               \* which of the two was called
  position,                  \* index in batch of the synset being translated
  finished,                  \* results of the translate_synset calls that returned
  received,                  \* what the caller of the entry point has got so far
  batch_pc                   \* "running", "returned" or "raised"

pipeline_vars == <<state, pc, attempt, locals, max_expansion_iterations, invocations,
                   visits, attempts_log, last_call, backend, deviations>>

dedup_vars == <<ws, cleaned, passes>>

decode_vars == <<llm_text, llm_payload, json_repair>>

batch_vars == <<batch, entry_point, position, finished, received, batch_pc>>

helper_vars == <<dedup_vars, decode_vars, batch_vars>>

vars == <<pipeline_vars, helper_vars>>

\* ------------------------------------------------------------------------
\* Bounds of the model
\* ------------------------------------------------------------------------

\* Largest max_expansion_iterations a pipeline is constructed with.
MaxIterations == 2

\* An "erratic" backend answers anything; MaxDeviations is the number of
\* its responses in a run that are not among the Expected responses.  The
\* other backends deviate any number of times: a "slow" backend answers
\* every call with the empty text until the last pass of _call_llm and with
\* an Expected response then; an "unresponsive" backend answers with
\* Expected responses until it stops answering, and with the empty text
\* ever after an attempt was rejected.
MaxDeviations == 1

\* Longest list _deduplicate_compounds is applied to on its own.
MaxWords == 4

\* Longest batch translate and translate_stream are called with.
MaxBatch == 2

\* Longest raw text _decode_llm_payload is applied to on its own, in segments.
MaxSegments == 3

\* ------------------------------------------------------------------------
\* Python values
\* ------------------------------------------------------------------------

Null == [t |-> "null"]
Str(s) == [t |-> "str", v |-> s]
Num(n) == [t |-> "num", v |-> n]
List(q) == [t |-> "list", v |-> q]
Dict(f) == [t |-> "dict", v |-> f]
Bool(b) == [t |-> "bool", v |-> b]

EmptyDict == [k \in {} |-> Null]

\* bool(v)
Truthy(v) ==
  CASE v.t = "null" -> FALSE
    [] v.t = "str" -> Len(v.v) > 0
    [] v.t = "num" -> v.v # 0
    [] v.t = "list" -> Len(v.v) > 0
    [] v.t = "dict" -> DOMAIN v.v # {}
    [] v.t = "bool" -> v.v
    [] OTHER -> TRUE

\* hash(v) succeeds
Hashable(v) == v.t \notin {"list", "dict"}

\* iter(v) succeeds
Iterable(v) == v.t \in {"str", "list", "dict"}

\* Some enumeration of a finite set.
RECURSIVE SetToSeq(_)
SetToSeq(S) ==
  IF S = {} THEN <<>>
  ELSE LET x == CHOOSE y \in S : TRUE IN <<x>> \o SetToSeq(S \ {x})

\* list(iter(v)) for an iterable v; a dict iterates its keys, a str its
\* characters.
Items(v) ==
  CASE v.t = "list" -> v.v
    [] v.t = "str" -> [i \in 1..Len(v.v) |-> Str(<<v.v[i]>>)]
    [] v.t = "dict" -> SetToSeq(DOMAIN v.v)
    [] OTHER -> <<>>

\* The items of an iterable, as a set.
ItemSet(v) == { Items(v)[i] : i \in 1..Len(Items(v)) }

\* a in b, for str a and b
IsSubstring(a, b) ==
  \E i \in 0..(Len(b) - Len(a)) : SubSeq(b, i + 1, i + Len(a)) = a

\* Code points of the characters the model's strings are made of, in
\* increasing order.
Chars ==
  <<" ", "(", ")", "0", "1", "2", "3", "4", "5", "6", "7", "8", "9",
    "A", "B", "N", "[", "]", "_",
    "a", "b", "c", "d", "e", "g", "h", "i", "m", "n", "o", "r", "s", "t",
    "v", "x", "y", "{", "}", "~">>
Ord(c) == CHOOSE i \in 1..Len(Chars) : Chars[i] = c

\* a < b on str (lexicographic by code point)
RECURSIVE StrLess(_, _)
StrLess(a, b) ==
  IF Len(b) = 0 THEN FALSE
  ELSE IF Len(a) = 0 THEN TRUE
  ELSE IF Head(a) = Head(b) THEN StrLess(Tail(a), Tail(b))
  ELSE Ord(Head(a)) < Ord(Head(b))

\* a < b where Python defines it for the two values
Less(a, b) ==
  IF a.t = "str" /\ b.t = "str" THEN StrLess(a.v, b.v)
  ELSE IF a.t = "num" /\ b.t = "num" THEN a.v < b.v
  ELSE FALSE

\* sorted(S) raises TypeError when it has to compare a str with a number.
SortedRaises(S) == \E x, y \in S : (x.t = "str") # (y.t = "str")

\* sorted(S)
RECURSIVE Sorted(_)
Sorted(S) ==
  IF S = {} THEN <<>>
  ELSE LET m == CHOOSE x \in S : \A y \in S : ~Less(y, x)
       IN <<m>> \o Sorted(S \ {m})

\* str(n) for a number of one digit
Digits == <<"0", "1", "2", "3", "4", "5", "6", "7", "8", "9">>

\* str(v): a str is itself; None is "None"; a container is its repr, the
\* character "~" standing for the repr of its items.
PyStr(v) ==
  CASE v.t = "str" -> v
    [] v.t = "null" -> Str(<<"N", "o", "n", "e">>)
    [] v.t = "num" -> Str(<<Digits[v.v + 1]>>)
    [] v.t = "list" -> Str(IF Len(v.v) = 0 THEN <<"[", "]">> ELSE <<"[", "~", "]">>)
    [] v.t = "dict" -> Str(IF DOMAIN v.v = {} THEN <<"{", "}">> ELSE <<"{", "~", "}">>)
    [] OTHER -> Str(<<"~">>)

\* d.get(k, default)
Get(d, k, default) == IF k \in DOMAIN d THEN d[k] ELSE default

\* x or y
Or(x, y) == IF Truthy(x) THEN x ELSE y

\* any(payload.values())
AnyValue(d) == \E k \in DOMAIN d : Truthy(d[k])

\* ------------------------------------------------------------------------
\* String literals of the source
\* ------------------------------------------------------------------------

MaxRetriesExceeded ==
  <<"m","a","x"," ","r","e","t","r","i","e","s"," ","e","x","c","e","e","d","e","d">>
NeedsRevision == <<"n","e","e","d","s","_","r","e","v","i","s","i","o","n">>
Ok == <<"o","k">>
High == <<"h","i","g","h">>

\* ------------------------------------------------------------------------
\* Stage tags.  A tag is the stage string passed to _call_llm; the tag of
\* expansion iteration k is the string "expansion_iter_k".
\* ------------------------------------------------------------------------

Stage(name) == [name |-> name, n |-> 0]
ExpansionIter(k) == [name |-> "expansion_iter_", n |-> k]

\* ------------------------------------------------------------------------
\* Pydantic schemas
\* ------------------------------------------------------------------------

IsStr(v) == v.t = "str"
IsOptStr(v) == v.t \in {"null", "str"}
IsInt(v) == v.t = "num"
IsListStr(v) == v.t = "list" /\ \A i \in 1..Len(v.v) : IsStr(v.v[i])
IsListOptStr(v) == v.t = "list" /\ \A i \in 1..Len(v.v) : IsOptStr(v.v[i])
IsDictStrStr(v) == v.t = "dict" /\ \A k \in DOMAIN v.v : IsStr(v.v[k])
IsDictStrOptStr(v) == v.t = "dict" /\ \A k \in DOMAIN v.v : IsOptStr(v.v[k])
IsDictStrInt(v) == v.t = "dict" /\ \A k \in DOMAIN v.v : IsInt(v.v[k])
IsListDictStrStr(v) == v.t = "list" /\ \A i \in 1..Len(v.v) : IsDictStrStr(v.v[i])
IsIssue(v) ==
  /\ v.t = "dict"
  /\ {Str(<<"t","y","p","e">>), Str(<<"m","e","s","s","a","g","e">>)} \subseteq DOMAIN v.v
  /\ v.v[Str(<<"t","y","p","e">>)] \in {Str(<<"c","i","r","c","u","l","a","r">>),
                      Str(<<"g","r","a","m","m","a","r">>),
                      Str(<<"s","t","y","l","e">>)}
  /\ IsStr(v.v[Str(<<"m","e","s","s","a","g","e">>)])

IsListIssue(v) == v.t = "list" /\ \A i \in 1..Len(v.v) : IsIssue(v.v[i])

\* Does value v satisfy the annotation named ty?
TypeOK(ty, v) ==
  CASE ty = "str" -> IsStr(v)
    [] ty = "str_min3" -> IsStr(v) /\ Len(v.v) >= 3
    [] ty = "opt_str" -> IsOptStr(v)
    [] ty = "list_str" -> IsListStr(v)
    [] ty = "opt_list_str" -> v.t = "null" \/ IsListStr(v)
    [] ty = "list_opt_str" -> IsListOptStr(v)
    [] ty = "dict_str_opt_str" -> IsDictStrOptStr(v)
    [] ty = "opt_dict_str_str" -> v.t = "null" \/ IsDictStrStr(v)
    [] ty = "opt_dict_str_int" -> v.t = "null" \/ IsDictStrInt(v)
    [] ty = "opt_list_dict_str_str" -> v.t = "null" \/ IsListDictStrStr(v)
    [] ty = "opt_int" -> v.t \in {"null", "num"}
    [] ty = "opt_bool" -> v.t \in {"null", "bool"}
    [] ty = "status" -> v \in {Str(Ok), Str(NeedsRevision)}
    [] ty = "list_issue" -> IsListIssue(v)
    [] OTHER -> FALSE

\* A field: required (no default), or optional with the default's value.
Req(name, ty) == [name |-> name, ty |-> ty, required |-> TRUE, default |-> Null]
Opt(name, ty, d) == [name |-> name, ty |-> ty, required |-> FALSE, default |-> d]

SenseAnalysisSchema ==
  { Req("sense_summary", "str_min3"),
    Opt("contrastive_note", "opt_str", Null),
    Opt("key_features", "list_str", List(<<>>)),
    Opt("domain_tags", "opt_list_str", List(<<>>)),
    Req("confidence", "str") }

DefinitionTranslationSchema ==
  { Req("definition_translation", "str"),
    Opt("notes", "opt_str", Null),
    Opt("examples", "opt_list_str", List(<<>>)) }

LemmaTranslationSchema ==
  { Req("initial_translations", "list_opt_str"),
    Req("alignment", "dict_str_opt_str") }

ExpansionSchema ==
  { Req("expanded_synonyms", "list_str"),
    Opt("rationale", "opt_dict_str_str", Dict(EmptyDict)),
    Opt("iterations_run", "opt_int", Num(1)),
    Opt("synonym_provenance", "opt_dict_str_int", Dict(EmptyDict)),
    Opt("converged", "opt_bool", Bool(FALSE)) }

FilteringSchema ==
  { Req("filtered_synonyms", "list_str"),
    Opt("confidence_by_word", "opt_dict_str_str", Dict(EmptyDict)),
    Opt("removed", "opt_list_dict_str_str", List(<<>>)),
    Req("confidence", "str") }

DefinitionQualitySchema ==
  { Req("status", "status"),
    Opt("issues", "list_issue", List(<<>>)),
    Opt("revised_definition", "opt_str", Null),
    Opt("notes", "opt_str", Null) }

FieldNames(schema) == { f.name : f \in schema }
FieldOf(schema, name) == CHOOSE f \in schema : f.name = name

\* schema_cls(**payload) succeeds
Validates(payload, schema) ==
  \A f \in schema :
    IF f.name \in DOMAIN payload THEN TypeOK(f.ty, payload[f.name])
    ELSE ~f.required

\* model.model_dump(): the schema's fields, defaults where absent; keys the
\* schema does not declare are dropped.
ModelDump(payload, schema) ==
  [name \in FieldNames(schema) |->
     IF name \in DOMAIN payload THEN payload[name]
     ELSE FieldOf(schema, name).default]

\* A fallback dictionary of the defaulted fields only.
FallbackOfDefaults(schema) ==
  [name \in { f.name : f \in { g \in schema : ~g.required } } |->
     FieldOf(schema, name).default]

\* The fallback dictionary: required fields get the empty string, the
\* others their default.
Fallback(schema) ==
  [name \in FieldNames(schema) |->
     IF FieldOf(schema, name).required THEN Str(<<>>)
     ELSE FieldOf(schema, name).default]

validate_stage_payload(payload, schema) ==
  IF Validates(payload, schema) THEN ModelDump(payload, schema)
  ELSE payload @@ Fallback(schema)

schema_map ==
  { <<Stage("sense_analysis"), SenseAnalysisSchema>>,
    <<Stage("definition_translation"), DefinitionTranslationSchema>>,
    <<Stage("initial_translation"), LemmaTranslationSchema>>,
    <<Stage("synonym_expansion"), ExpansionSchema>>,
    <<Stage("synonym_filtering"), FilteringSchema>>,
    <<Stage("definition_quality"), DefinitionQualitySchema>> }

validate_payload_for_stage(stage, payload) ==
  IF \E e \in schema_map : e[1] = stage
  THEN validate_stage_payload(payload, (CHOOSE e \in schema_map : e[1] = stage)[2])
  ELSE payload

\* ------------------------------------------------------------------------
\* Raw model text and its decoding
\* ------------------------------------------------------------------------

\* str(content).strip() of a response: the empty string, prose holding no
\* JSON object, or the text of a JSON object.
RawEmpty == [t |-> "empty"]
RawText(s) == [t |-> "text", v |-> s]
RawJson(d) == [t |-> "json", v |-> d]

decode_llm_payload(raw) ==
  CASE raw.t = "empty" ->
         ("translation" :> Str(<<>>)) @@ ("examples" :> List(<<>>)) @@ ("notes" :> Null)
    [] raw.t = "json" -> raw.v
    [] OTHER -> ("translation" :> Str(raw.v))

\* ------------------------------------------------------------------------
\* Prompt builders.  A prompt is the record of the values its template
\* embeds; a literal placeholder of the template is a "placeholder" value.
\* ------------------------------------------------------------------------

Placeholder(text) == [t |-> "placeholder", v |-> text]

\* f"{x or 'placeholder'}"
Slot(x, text) == IF Truthy(x) THEN x ELSE Placeholder(text)

\* _get_wordnet_domain_info: the lexical-metadata collaborator, here without
\* an entry for the identifier (the empty mapping).
get_wordnet_domain_info(english_id) == [k \in {} |-> Null]

\* synset.get(a) or synset.get(b) or empty
Alias2(synset, a, b, empty) ==
  Or(Or(Get(synset, a, Null), Get(synset, b, Null)), empty)

SynsetId(synset) ==
  Or(Or(Or(Get(synset, "id", Null), Get(synset, "english_id", Null)),
        Get(synset, "ili_id", Null)), Str(<<>>))

render_sense_prompt(synset) ==
  LET domain_info == get_wordnet_domain_info(SynsetId(synset)) IN
  [ kind |-> "sense",
    english_id |-> SynsetId(synset),
    pos |-> Slot(Alias2(synset, "pos", "part_of_speech", Str(<<>>)), "unknown"),
    lexname |-> Slot(Get(domain_info, "lexname", Str(<<>>)), "(not available)"),
    topic_domains |-> Slot(Get(domain_info, "topic_domains", List(<<>>)), "(none)"),
    lemmas |-> Alias2(synset, "lemmas", "literals", List(<<>>)),
    definition |-> Slot(Alias2(synset, "definition", "gloss", Str(<<>>)), "(not provided)"),
    examples |-> Slot(Or(Get(synset, "examples", Null), List(<<>>)), "(no examples)") ]

\* "\n- ".join(str(item) for item in key_features) raises TypeError when
\* key_features is truthy and cannot be iterated.
render_definition_prompt_raises(sense_payload) ==
  LET key_features == Or(Get(sense_payload, "key_features", Null), List(<<>>)) IN
  Truthy(key_features) /\ ~Iterable(key_features)

render_definition_prompt(synset, sense_payload) ==
  [ kind |-> "definition",
    definition |-> Slot(Alias2(synset, "definition", "gloss", Str(<<>>)), "(not provided)"),
    sense_summary |-> Slot(Get(sense_payload, "sense_summary", Str(<<>>)),
                           "(no summary provided)"),
    key_features |-> Slot(Or(Get(sense_payload, "key_features", Null), List(<<>>)),
                          "(none)") ]

render_initial_translation_prompt(synset, sense_payload) ==
  LET lemmas == Alias2(synset, "lemmas", "literals", List(<<>>)) IN
  [ kind |-> "initial_translation",
    lemmas |-> IF lemmas.t = "list" THEN lemmas ELSE List(<<lemmas>>),
    sense_summary |-> Slot(Get(sense_payload, "sense_summary", Str(<<>>)),
                           "(no summary available)") ]

\* [t for t in initial_translations if t is not None]
NotNone(q) == SelectSeq(q, LAMBDA e : e.t # "null")

\* The comprehension over initial_translations raises TypeError when the
\* value cannot be iterated.
render_expansion_prompt_raises(initial_payload) ==
  ~Iterable(Get(initial_payload, "initial_translations", List(<<>>)))

render_expansion_prompt(initial_payload, sense_payload, definition_payload) ==
  LET initial_translations ==
        NotNone(Items(Get(initial_payload, "initial_translations", List(<<>>)))) IN
  [ kind |-> "expansion",
    sense_summary |-> Slot(Get(sense_payload, "sense_summary", Str(<<>>)),
                           "(no summary available)"),
    definition_translation |-> Slot(Get(definition_payload, "definition_translation", Str(<<>>)),
                                    "(not available)"),
    base_synonyms |-> Slot(List(initial_translations), "(none)") ]

render_filtering_prompt(expansion_payload, sense_payload, definition_payload) ==
  [ kind |-> "filtering",
    expanded |-> Slot(Get(expansion_payload, "expanded_synonyms", List(<<>>)), "(none)"),
    sense_summary |-> Slot(Get(sense_payload, "sense_summary", Str(<<>>)),
                           "(no summary available)"),
    definition_translation |-> Slot(Get(definition_payload, "definition_translation", Str(<<>>)),
                                    "(not available)") ]

\* ", ".join(filtered_synonyms) raises TypeError when filtered_synonyms is
\* truthy and cannot be iterated or holds an item that is not a str.
render_definition_quality_prompt_raises(filtered_synonyms) ==
  /\ Truthy(filtered_synonyms)
  /\ \/ ~Iterable(filtered_synonyms)
     \/ \E i \in 1..Len(Items(filtered_synonyms)) : Items(filtered_synonyms)[i].t # "str"

render_definition_quality_prompt(filtered_synonyms, definition_translation) ==
  [ kind |-> "definition_quality",
    definition |-> definition_translation,
    synonyms |-> Slot(filtered_synonyms, "(none)") ]

\* ------------------------------------------------------------------------
\* _call_llm: one pass of its retry loop
\* ------------------------------------------------------------------------

\* retries: int = 2
retries == 2

Sentinel == ("error" :> Str(MaxRetriesExceeded))

\* The success check of _call_llm: payload and any(payload.values()).
Accepted(payload) == DOMAIN payload # {} /\ AnyValue(payload)

\* The call_log of an accepted attempt, or the fallback return after the
\* last attempt.
StageCall(stage, prompt, raw, payload) ==
  [stage |-> stage, prompt |-> prompt, raw_response |-> raw, payload |-> payload]

\* A loop of one pass too many.
LastPassOneLate(n) == n >= retries + 1

\* Is pass n the last of `for attempt in range(retries + 1)`?
LastPass(n) == n >= retries

\* A loop that never returns on an accepted attempt.
LoopReturnsOnlyWhenExhausted(ok, n) == LastPass(n)

\* Does _call_llm return in pass n, whose attempt was accepted or not?  It
\* returns the call_log of an accepted attempt at once, and the fallback
\* after the last pass.
LoopReturns(ok, n) == ok \/ LastPass(n)

\* Pass number `attempt` of the loop on response raw: ok says the attempt
\* was accepted, returns says _call_llm returns in this pass, call is what
\* it returns then.
call_llm(prompt, stage, raw) ==
  LET payload == validate_payload_for_stage(stage, decode_llm_payload(raw))
      ok == Accepted(payload)
  IN [ ok |-> ok,
       returns |-> LoopReturns(ok, attempt),
       raw |-> raw,
       payload |-> payload,
       call |-> StageCall(stage, prompt, raw, IF ok THEN payload ELSE Sentinel) ]

\* ------------------------------------------------------------------------
\* Inputs: the synsets translated and the texts the backend answers with
\* ------------------------------------------------------------------------

WA == <<"a">>
WB == <<"b">>
WC == <<"c">>
Summary == <<"d","o","g">>
Gloss == <<"g">>
Revised == <<"r">>

SynsetDog ==
  ("id" :> Str(<<"1">>)) @@ ("lemmas" :> List(<<Str(Summary)>>))
    @@ ("definition" :> Str(<<"d">>)) @@ ("pos" :> Str(<<"n">>))

\* No translatable content: no lemmas, empty definition, no examples.
SynsetEmpty ==
  ("id" :> Str(<<"0">>)) @@ ("lemmas" :> List(<<>>)) @@ ("definition" :> Str(<<>>))
    @@ ("examples" :> List(<<>>)) @@ ("pos" :> Str(<<>>))

Synsets == {SynsetDog, SynsetEmpty}

SenseResponses ==
  { RawEmpty,
    RawText(<<"x">>),
    RawJson(("sense_summary" :> Str(Summary)) @@ ("confidence" :> Str(High))),
    RawJson(("sense_summary" :> Str(Summary)) @@ ("confidence" :> Str(High))
              @@ ("key_features" :> Num(5))) }

DefinitionResponses ==
  { RawEmpty,
    RawText(<<"x">>),
    RawJson(("definition_translation" :> Str(<<>>))),
    RawJson(("definition_translation" :> Null) @@ ("notes" :> Str(<<"n">>))),
    RawJson(("definition_translation" :> Str(Gloss))
              @@ ("examples" :> List(<<Str(WB), Str(WA), Str(WB)>>))) }

LemmaResponses ==
  { RawEmpty,
    RawText(<<"x">>),
    RawJson(("initial_translations" :> List(<<Str(WA)>>))
              @@ ("alignment" :> Dict(Str(Summary) :> Str(WA)))),
    RawJson(("initial_translations" :> List(<<Str(WA), Null, Str(<<>>)>>))
              @@ ("alignment" :> Dict(Str(Summary) :> Str(WA)))),
    RawJson(("initial_translations" :> Null)
              @@ ("alignment" :> Dict(Str(Summary) :> Str(WA)))) }

ExpansionResponses ==
  { RawEmpty,
    RawText(<<"x">>),
    RawJson(("expanded_synonyms" :> List(<<>>)) @@ ("rationale" :> Dict(EmptyDict))),
    RawJson(("expanded_synonyms" :> List(<<Str(WA)>>))
              @@ ("rationale" :> Dict(Str(WA) :> Str(<<"r">>)))),
    RawJson(("expanded_synonyms" :> List(<<Str(WB), Str(<<>>)>>))
              @@ ("rationale" :> Dict(Str(WB) :> Str(<<"r">>)))),
    RawJson(("expanded_synonyms" :> List(<<Str(WC), Str(WB)>>))),
    RawJson(("expanded_synonyms" :> List(<<List(<<Str(WC)>>)>>))),
    RawJson(("error" :> Str(MaxRetriesExceeded))) }

FilteringResponses ==
  { RawEmpty,
    RawText(<<"x">>),
    RawJson(("filtered_synonyms" :> List(<<Str(WA), Str(WB)>>))
              @@ ("confidence" :> Str(High))),
    RawJson(("filtered_synonyms" :> List(<<Str(WA), Null>>))
              @@ ("confidence" :> Str(High))),
    RawJson(("filtered_synonyms" :> List(<<Str(<<"A">>), Str(WB), Str(<<"A">>)>>))
              @@ ("confidence" :> Str(High))),
    RawJson(("filtered_synonyms" :>
               List(<<Str(<<"c", " ", "a">>), Str(WB), Str(WA), Str(WB)>>))
              @@ ("confidence" :> Str(High))),
    RawJson(("filtered_synonyms" :> List(<<Str(<<" ", "A">>), Str(WA), Str(<<" ">>)>>))
              @@ ("confidence" :> Str(High))) }

QualityResponses ==
  { RawEmpty,
    RawText(<<"x">>),
    RawJson(("status" :> Str(Ok))),
    RawJson(("status" :> Str(Ok)) @@ ("revised_definition" :> Str(Revised))),
    RawJson(("status" :> Str(NeedsRevision)) @@ ("revised_definition" :> Str(Revised))) }

\* The responses of a backend that does what the prompts ask.
Expected ==
  { RawJson(("sense_summary" :> Str(Summary)) @@ ("confidence" :> Str(High))),
    RawJson(("definition_translation" :> Str(Gloss))
              @@ ("examples" :> List(<<Str(WB), Str(WA), Str(WB)>>))),
    RawJson(("initial_translations" :> List(<<Str(WA)>>))
              @@ ("alignment" :> Dict(Str(Summary) :> Str(WA)))),
    RawJson(("expanded_synonyms" :> List(<<>>)) @@ ("rationale" :> Dict(EmptyDict))),
    RawJson(("expanded_synonyms" :> List(<<Str(WA)>>))
              @@ ("rationale" :> Dict(Str(WA) :> Str(<<"r">>)))),
    RawJson(("expanded_synonyms" :> List(<<Str(WB), Str(<<>>)>>))
              @@ ("rationale" :> Dict(Str(WB) :> Str(<<"r">>)))),
    RawJson(("expanded_synonyms" :> List(<<Str(WC), Str(WB)>>))),
    RawJson(("filtered_synonyms" :> List(<<Str(WA), Str(WB)>>))
              @@ ("confidence" :> Str(High))),
    RawJson(("status" :> Str(Ok))) }

\* What llm.invoke may answer to a call of the stage.
Responses(stage) ==
  CASE stage = Stage("sense_analysis") -> SenseResponses
    [] stage = Stage("definition_translation") -> DefinitionResponses
    [] stage = Stage("initial_translation") -> LemmaResponses
    [] stage = Stage("synonym_filtering") -> FilteringResponses
    [] stage = Stage("definition_quality") -> QualityResponses
    [] OTHER -> ExpansionResponses

\* ------------------------------------------------------------------------
\* The graph
\* ------------------------------------------------------------------------

Nodes ==
  <<"analyse_sense", "translate_definition", "translate_all_lemmas",
    "expand_synonyms", "filter_synonyms", "review_definition_quality",
    "assemble_result">>

NodeSet == { Nodes[i] : i \in 1..Len(Nodes) }

\* A graph whose filtering node leads straight to assembly.
EdgeSkippingReview(a) ==
  CASE a = "START" -> "analyse_sense"
    [] a = "analyse_sense" -> "translate_definition"
    [] a = "translate_definition" -> "translate_all_lemmas"
    [] a = "translate_all_lemmas" -> "expand_synonyms"
    [] a = "expand_synonyms" -> "filter_synonyms"
    [] a = "filter_synonyms" -> "assemble_result"
    [] a = "review_definition_quality" -> "assemble_result"
    [] a = "assemble_result" -> "END"

\* graph.add_edge(a, b): the node that runs after a.
Edge(a) ==
  CASE a = "START" -> "analyse_sense"
    [] a = "analyse_sense" -> "translate_definition"
    [] a = "translate_definition" -> "translate_all_lemmas"
    [] a = "translate_all_lemmas" -> "expand_synonyms"
    [] a = "expand_synonyms" -> "filter_synonyms"
    [] a = "filter_synonyms" -> "review_definition_quality"
    [] a = "review_definition_quality" -> "assemble_result"
    [] a = "assemble_result" -> "END"

EmptyPayload == [k \in {} |-> Null]

\* state.get(key, {}).get("payload", {})
PayloadOf(key) == IF key \in DOMAIN state THEN state[key].payload ELSE EmptyPayload

\* Locals of _expand_synonyms before the node has started.
NoLocals ==
  [ started |-> FALSE, all_synonyms |-> {}, synonym_provenance |-> EmptyDict,
    all_rationales |-> EmptyDict, iteration_calls |-> <<>>, new_count |-> 0,
    iteration |-> 0 ]

NoCall == [stage |-> Stage("none"), accepted |-> FALSE, call |-> StageCall(Stage("none"), Null, RawEmpty, EmptyPayload)]

InitPipeline ==
  /\ max_expansion_iterations \in 1..MaxIterations
  /\ state = [k \in {} |-> Null]
  /\ pc = "START"
  /\ attempt = 0
  /\ locals = NoLocals
  /\ invocations = 0
  /\ visits = [n \in NodeSet |-> 0]
  /\ attempts_log = <<>>
  /\ last_call = NoCall
  /\ backend \in {"erratic", "slow", "unresponsive"}
  /\ deviations = 0

\* No _deduplicate_compounds call outside a run is under way.
NoDedup == ws = <<>> /\ cleaned = <<>> /\ passes = 0

\* No _decode_llm_payload call outside a run is under way.
NoDecode == llm_text = <<>> /\ llm_payload = Null /\ json_repair = Null

\* No translate or translate_stream call is under way.
NoBatch ==
  /\ batch = <<>>
  /\ entry_point = "translate_synset"
  /\ position = 0
  /\ finished = <<>>
  /\ received = <<>>
  /\ batch_pc = "none"

Init == InitPipeline /\ NoDedup /\ NoDecode /\ NoBatch

\* translate_synset: self._graph.invoke({"synset": synset})
TranslateSynset ==
  /\ pc = "START"
  /\ \E synset \in Synsets : state' = ("synset" :> synset)
  /\ pc' = Edge("START")
  /\ UNCHANGED <<attempt, locals, invocations, max_expansion_iterations, visits,
                 attempts_log, last_call, backend, deviations>>
  /\ UNCHANGED helper_vars

\* One llm.invoke of _call_llm and what the pass does with the response.
Invoke(out) ==
  /\ invocations' = invocations + 1
  /\ attempts_log' = (IF attempt = 0 THEN <<>> ELSE attempts_log)
                       \o <<[stage |-> out.call.stage, raw |-> out.raw,
                             payload |-> out.payload, ok |-> out.ok]>>
  /\ attempt' = IF out.returns THEN 0 ELSE attempt + 1
  /\ last_call' = IF out.returns
                  THEN [stage |-> out.call.stage, accepted |-> out.ok, call |-> out.call]
                  ELSE last_call
  /\ CASE backend = "unresponsive" ->
            /\ \/ out.raw = RawEmpty
               \/ /\ out.raw \in Expected
                  /\ attempt = 0
                  /\ last_call = NoCall \/ last_call.accepted
            /\ UNCHANGED deviations
       [] backend = "slow" ->
            /\ IF attempt < retries THEN out.raw = RawEmpty ELSE out.raw \in Expected
            /\ UNCHANGED deviations
       [] OTHER ->
            IF out.raw \notin Expected
            THEN deviations < MaxDeviations /\ deviations' = deviations + 1
            ELSE UNCHANGED deviations

\* The node function raises: the exception leaves self._graph.invoke.
Raise ==
  /\ pc' = "raised"
  /\ UNCHANGED <<state, attempt, invocations, attempts_log, last_call, deviations>>

\* A node making one _call_llm call and returning {key: call_result}.
CallNode(node, key, stage, raises, prompt) ==
  /\ pc = node
  /\ visits' = IF attempt = 0 THEN [visits EXCEPT ![node] = @ + 1] ELSE visits
  /\ IF raises THEN Raise
     ELSE \E raw \in Responses(stage) :
            LET out == call_llm(prompt, stage, raw) IN
            /\ Invoke(out)
            /\ IF out.returns
               THEN state' = (key :> out.call) @@ state /\ pc' = Edge(node)
               ELSE UNCHANGED <<state, pc>>
  /\ UNCHANGED <<locals, max_expansion_iterations, backend>>
  /\ UNCHANGED helper_vars

\* No lemmas, no definition, no examples.
NoTranslatableContent(synset) ==
  /\ ~Truthy(Alias2(synset, "lemmas", "literals", List(<<>>)))
  /\ ~Truthy(Alias2(synset, "definition", "gloss", Str(<<>>)))
  /\ ~Truthy(Or(Get(synset, "examples", Null), List(<<>>)))

\* The result of an empty translation.
EmptyResult(synset) ==
  [ translation |-> Str(<<>>), definition_translation |-> Str(<<>>),
    translated_synonyms |-> List(<<>>), source |-> synset,
    examples |-> List(<<>>), notes |-> Null ]

\* A sense-analysis node that ends the run with an empty result, without a
\* model call, when the synset has no translatable content.
analyse_sense_short_circuit ==
  /\ pc = "analyse_sense"
  /\ IF NoTranslatableContent(state["synset"])
     THEN /\ pc' = "END"
          /\ state' = ("result" :> EmptyResult(state["synset"])) @@ state
          /\ visits' = [visits EXCEPT !["analyse_sense"] = @ + 1]
          /\ UNCHANGED <<attempt, locals, max_expansion_iterations, invocations,
                         attempts_log, last_call, backend, deviations>>
          /\ UNCHANGED helper_vars
     ELSE CallNode("analyse_sense", "sense_analysis", Stage("sense_analysis"),
                   FALSE, render_sense_prompt(state["synset"]))

analyse_sense ==
  CallNode("analyse_sense", "sense_analysis", Stage("sense_analysis"),
           FALSE, render_sense_prompt(state["synset"]))

translate_definition ==
  CallNode("translate_definition", "definition_translation",
           Stage("definition_translation"),
           render_definition_prompt_raises(PayloadOf("sense_analysis")),
           render_definition_prompt(state["synset"], PayloadOf("sense_analysis")))

translate_all_lemmas ==
  CallNode("translate_all_lemmas", "initial_translation_call",
           Stage("initial_translation"), FALSE,
           render_initial_translation_prompt(state["synset"], PayloadOf("sense_analysis")))

\* set(t for t in initial_translations if t is not None) raises TypeError
\* when the value cannot be iterated or holds an unhashable item.
SeedRaises(initial_translations) ==
  \/ ~Iterable(initial_translations)
  \/ \E t \in ItemSet(initial_translations) : t.t # "null" /\ ~Hashable(t)

\* The locals of _expand_synonyms when its loop is entered.
SeedLocals(initial_translations) ==
  LET all_synonyms == { t \in ItemSet(initial_translations) : t.t # "null" } IN
  [ NoLocals EXCEPT !.started = TRUE,
                    !.all_synonyms = all_synonyms,
                    !.synonym_provenance = [syn \in all_synonyms |-> 0] ]

\* `syn in new_rationale` followed by new_rationale[syn] raises TypeError.
RationaleRaises(syn, new_rationale) ==
  CASE new_rationale.t = "dict" -> FALSE
    [] new_rationale.t = "list" -> syn \in ItemSet(new_rationale)
    [] new_rationale.t = "str" -> syn.t # "str" \/ IsSubstring(syn.v, new_rationale.v)
    [] OTHER -> TRUE

\* A loop that ignores the iteration budget.
BudgetUnlimited(iteration) == TRUE

\* Does `for iteration in range(self.max_expansion_iterations)` have an
\* iteration after number `iteration`?
BudgetLeft(iteration) == iteration + 1 < max_expansion_iterations

\* A loop without the early stop.
LoopContinuesWithoutEarlyStop(new_count, iteration) == BudgetLeft(iteration)

\* Does the expansion loop run another iteration after iteration number
\* `iteration` added new_count candidates?  It breaks when none was added.
LoopContinues(new_count, iteration) == new_count # 0 /\ BudgetLeft(iteration)

\* A provenance that is the loop index itself.
ProvenanceOfLoopIndex(iteration) == iteration

\* synonym_provenance[syn] = iteration + 1
ProvenanceOf(iteration) == iteration + 1

\* A merge that keeps only the candidates of the latest answer.
MergeReplacing(all_synonyms, added) == added

\* all_synonyms.add(syn) for every new candidate of the iteration.
Merge(all_synonyms, added) == all_synonyms \cup added

\* A loop that goes on to the next iteration after a sentinel payload while
\* the budget lasts.
NextIterationAfterError(iteration) == BudgetLeft(iteration)

\* if "error" in payload: break
ContinuesAfterError(iteration) == FALSE

\* The body of the expansion loop after _call_llm returned call_result, on
\* locals loc: whether it raises, the locals after it, and whether the loop
\* goes on to another iteration.
ExpansionBody(loc, call_result) ==
  LET payload == call_result.payload
      errored == "error" \in DOMAIN payload
      new_expanded == Get(payload, "expanded_synonyms", List(<<>>))
      new_rationale == Get(payload, "rationale", Dict(EmptyDict))
      candidates == { syn \in ItemSet(new_expanded) : Truthy(syn) }
      added == candidates \ loc.all_synonyms
      explained == IF new_rationale.t = "dict"
                   THEN added \cap DOMAIN new_rationale.v ELSE {}
      new_count == Cardinality(added)
      appended == [loc EXCEPT !.iteration_calls = Append(@, call_result)]
      merged ==
        [ appended EXCEPT
            !.all_synonyms = Merge(@, added),
            !.synonym_provenance =
               [syn \in added |-> ProvenanceOf(loc.iteration)] @@ @,
            !.all_rationales =
               [syn \in explained |-> new_rationale.v[syn]] @@ @,
            !.new_count = new_count ]
  IN
  IF errored
  THEN [ raises |-> FALSE,
         continues |-> ContinuesAfterError(loc.iteration),
         locals |-> [appended EXCEPT !.iteration =
                       IF ContinuesAfterError(loc.iteration) THEN @ + 1 ELSE @] ]
  ELSE [ raises |-> \/ ~Iterable(new_expanded)
                    \/ \E syn \in candidates : ~Hashable(syn)
                    \/ \E syn \in added : RationaleRaises(syn, new_rationale),
         continues |-> LoopContinues(new_count, loc.iteration),
         locals |-> [merged EXCEPT !.iteration =
                       IF LoopContinues(new_count, loc.iteration) THEN @ + 1 ELSE @] ]

\* final_call_result of _expand_synonyms
ExpansionResult(loc) ==
  [ payload |->
      ("expanded_synonyms" :> List(Sorted(loc.all_synonyms)))
        @@ ("rationale" :> Dict(loc.all_rationales))
        @@ ("iterations_run" :> Num(loc.iteration + 1))
        @@ ("synonym_provenance" :>
              Dict([syn \in DOMAIN loc.synonym_provenance |->
                      Num(loc.synonym_provenance[syn])]))
        @@ ("converged" :> Bool(loc.new_count = 0)),
    stage |-> Stage("synonym_expansion"),
    calls |-> loc.iteration_calls ]

expand_synonyms ==
  LET initial_payload == PayloadOf("initial_translation_call")
      sense_payload == PayloadOf("sense_analysis")
      definition_payload == PayloadOf("definition_translation")
      initial_translations == Get(initial_payload, "initial_translations", List(<<>>))
      loc == IF locals.started THEN locals ELSE SeedLocals(initial_translations)
  IN
  /\ pc = "expand_synonyms"
  /\ visits' = IF locals.started THEN visits
               ELSE [visits EXCEPT !["expand_synonyms"] = @ + 1]
  /\ IF ~locals.started /\ SeedRaises(initial_translations)
     THEN Raise /\ UNCHANGED locals
     ELSE \E raw \in Responses(ExpansionIter(loc.iteration + 1)) :
            LET prompt == render_expansion_prompt(initial_payload, sense_payload,
                                                  definition_payload)
                out == call_llm(prompt, ExpansionIter(loc.iteration + 1), raw)
                body == ExpansionBody(loc, out.call)
            IN
            /\ Invoke(out)
            /\ IF ~out.returns
               THEN locals' = loc /\ UNCHANGED <<state, pc>>
               ELSE IF body.raises
               THEN pc' = "raised" /\ locals' = loc /\ UNCHANGED state
               ELSE IF body.continues
               THEN locals' = body.locals /\ UNCHANGED <<state, pc>>
               ELSE IF SortedRaises(body.locals.all_synonyms)
               THEN pc' = "raised" /\ locals' = body.locals /\ UNCHANGED state
               ELSE /\ locals' = body.locals
                    /\ state' = ("expansion_call" :> ExpansionResult(body.locals)) @@ state
                    /\ pc' = Edge("expand_synonyms")
  /\ UNCHANGED <<max_expansion_iterations, backend>>
  /\ UNCHANGED helper_vars

\* A filtering node that records its call under the key of the expansion
\* stage.
filter_synonyms_replacing_expansion ==
  CallNode("filter_synonyms", "expansion_call", Stage("synonym_filtering"), FALSE,
           render_filtering_prompt(PayloadOf("expansion_call"),
                                   PayloadOf("sense_analysis"),
                                   PayloadOf("definition_translation")))

filter_synonyms ==
  CallNode("filter_synonyms", "filtering_call", Stage("synonym_filtering"), FALSE,
           render_filtering_prompt(PayloadOf("expansion_call"),
                                   PayloadOf("sense_analysis"),
                                   PayloadOf("definition_translation")))

review_definition_quality ==
  LET filtered_synonyms ==
        Get(PayloadOf("filtering_call"), "filtered_synonyms", List(<<>>))
      definition_translation ==
        PyStr(Or(Get(PayloadOf("definition_translation"), "definition_translation",
                     Str(<<>>)), Str(<<>>)))
  IN
  CallNode("review_definition_quality", "definition_quality_call",
           Stage("definition_quality"),
           render_definition_quality_prompt_raises(filtered_synonyms),
           render_definition_quality_prompt(filtered_synonyms, definition_translation))

\* ------------------------------------------------------------------------
\* Assembly
\* ------------------------------------------------------------------------

\* s.lstrip(), s.rstrip(), s.strip() on the characters of a str
RECURSIVE LStrip(_)
LStrip(s) == IF Len(s) > 0 /\ Head(s) = " " THEN LStrip(Tail(s)) ELSE s

RECURSIVE RStrip(_)
RStrip(s) ==
  IF Len(s) > 0 /\ s[Len(s)] = " " THEN RStrip(SubSeq(s, 1, Len(s) - 1)) ELSE s

Strip(s) == RStrip(LStrip(s))

\* s.lower()
LowerChar(c) ==
  CASE c = "A" -> "a"
    [] c = "B" -> "b"
    [] c = "N" -> "n"
    [] OTHER -> c

Lower(s) == [i \in 1..Len(s) |-> LowerChar(s[i])]

\* The order-preserving deduplication loops of _assemble_result: keep the
\* first occurrence of every non-empty item.
RECURSIVE DedupeFrom(_, _)
DedupeFrom(q, seen) ==
  IF Len(q) = 0 THEN <<>>
  ELSE IF Len(Head(q)) > 0 /\ Head(q) \notin seen
  THEN <<Head(q)>> \o DedupeFrom(Tail(q), seen \cup {Head(q)})
  ELSE DedupeFrom(Tail(q), seen)

\* A deduplication that keeps the last occurrence of every item.
DedupeLastSeen(q) ==
  LET n == Len(q)
      reversed == [i \in 1..n |-> q[n + 1 - i]]
      kept == DedupeFrom(reversed, {})
      m == Len(kept)
  IN [i \in 1..m |-> kept[m + 1 - i]]

Dedupe(q) == DedupeFrom(q, {})

\* " " in w
HasSpace(w) == \E i \in 1..Len(w) : w[i] = " "

\* A test that takes any occurrence of the single word for a token.
HasTokenAsSubstring(w, single) == IsSubstring(single, w)

\* f" {s} " in f" {w} "
HasToken(w, single) ==
  IsSubstring(<<" ">> \o single \o <<" ">>, <<" ">> \o w \o <<" ">>)

\* A helper that lower-cases only what it returns.
deduplicate_compounds_case_sensitive(words) ==
  LET stripped == SelectSeq(words, LAMBDA w : Len(Strip(w)) > 0)
      trimmed == [i \in 1..Len(stripped) |-> Strip(stripped[i])]
      singles == { trimmed[i] : i \in { j \in 1..Len(trimmed) : ~HasSpace(trimmed[j]) } }
      kept == SelectSeq(trimmed,
                        LAMBDA w : ~(HasSpace(w) /\ \E single \in singles : HasToken(w, single)))
  IN [i \in 1..Len(kept) |-> Lower(kept[i])]

\* _deduplicate_compounds, on a list of strs
deduplicate_compounds(words) ==
  LET stripped == SelectSeq(words, LAMBDA w : Len(Strip(w)) > 0)
      lowered == [i \in 1..Len(stripped) |-> Lower(Strip(stripped[i]))]
      singles == { lowered[i] : i \in { j \in 1..Len(lowered) : ~HasSpace(lowered[j]) } }
  IN SelectSeq(lowered,
               LAMBDA w : ~(HasSpace(w) /\ \E single \in singles : HasToken(w, single)))

\* [str(x).strip() for x in items if x]
StrippedTruthy(items) ==
  LET kept == SelectSeq(items, Truthy) IN
  [i \in 1..Len(kept) |-> Strip(PyStr(kept[i]).v)]

\* The strs of a list of characters sequences, as a list value.
StrList(q) == List([i \in 1..Len(q) |-> Str(q[i])])

\* q[:n]
Take(q, n) == SubSeq(q, 1, IF Len(q) < n THEN Len(q) ELSE n)

\* call.get("raw_response") of the first of the calls that has a truthy one,
\* the empty text when none has.
RECURSIVE FirstRaw(_)
FirstRaw(calls) ==
  IF Len(calls) = 0 THEN RawEmpty
  ELSE IF "raw_response" \in DOMAIN Head(calls) /\ Head(calls).raw_response # RawEmpty
  THEN Head(calls).raw_response
  ELSE FirstRaw(Tail(calls))

\* _summarise_call
summarise_call(call) ==
  [ stage |-> call.stage,
    prompt |-> IF "prompt" \in DOMAIN call THEN call.prompt ELSE Null,
    raw_response_preview |->
      IF "raw_response" \in DOMAIN call THEN call.raw_response ELSE RawEmpty ]

\* _MAX_SYNONYMS_DISPLAY: int = 5
MAX_SYNONYMS_DISPLAY == 5

\* The TranslationResult _assemble_result builds from the graph state.
AssembledResult ==
  LET synset == state["synset"]
      sense_payload == PayloadOf("sense_analysis")
      definition_payload == PayloadOf("definition_translation")
      initial_payload == PayloadOf("initial_translation_call")
      expansion_payload == PayloadOf("expansion_call")
      filtering_payload == PayloadOf("filtering_call")
      definition_quality_payload == PayloadOf("definition_quality_call")
      primary ==
        Strip(PyStr(Get(definition_payload, "definition_translation", Str(<<>>))).v)
      quality_status ==
        Lower(PyStr(Or(Get(definition_quality_payload, "status", Str(<<>>)),
                       Str(<<>>))).v)
      quality_revision == Get(definition_quality_payload, "revised_definition", Null)
      quality_revision_text ==
        IF quality_revision.t = "null" THEN <<>>
        ELSE Strip(PyStr(quality_revision).v)
      definition_translation ==
        IF Len(quality_revision_text) > 0
             /\ (quality_status = NeedsRevision \/ Len(primary) = 0)
        THEN quality_revision_text ELSE primary
      filtered_synonyms == Get(filtering_payload, "filtered_synonyms", List(<<>>))
      collected ==
        IF filtered_synonyms.t = "list" THEN StrippedTruthy(filtered_synonyms.v)
        ELSE IF Truthy(filtered_synonyms)
        THEN <<Strip(PyStr(filtered_synonyms).v)>>
        ELSE <<>>
      translated_synonyms == deduplicate_compounds(Dedupe(collected))
      translation ==
        IF Len(translated_synonyms) > 0 THEN translated_synonyms[1] ELSE <<>>
      definition_examples == Get(definition_payload, "examples", Null)
      gathered ==
        IF definition_examples.t = "list" THEN StrippedTruthy(definition_examples.v)
        ELSE IF definition_examples.t = "str" /\ Len(Strip(definition_examples.v)) > 0
        THEN <<Strip(definition_examples.v)>>
        ELSE <<>>
      examples == Dedupe(gathered)
      NoteText(v) ==
        IF Truthy(v) /\ Len(Strip(PyStr(v).v)) > 0 THEN Strip(PyStr(v).v) ELSE <<>>
      primary_note == NoteText(Get(definition_payload, "notes", Null))
      fallback_note == NoteText(Get(definition_quality_payload, "notes", Null))
      notes ==
        IF Len(primary_note) > 0 THEN Str(primary_note)
        ELSE IF Len(fallback_note) > 0 THEN Str(fallback_note)
        ELSE Null
      domain_info == get_wordnet_domain_info(SynsetId(synset))
      issues == Or(Get(definition_quality_payload, "issues", Null), List(<<>>))
      Call(key) == IF key \in DOMAIN state THEN state[key] ELSE EmptyPayload
      Log(key) == IF key \in DOMAIN state THEN summarise_call(state[key]) ELSE EmptyPayload
  IN
  [ translation |-> Str(translation),
    definition_translation |-> Str(definition_translation),
    translated_synonyms |-> StrList(translated_synonyms),
    source |-> synset,
    examples |-> StrList(examples),
    notes |-> notes,
    lexname |-> Get(domain_info, "lexname", Null),
    topic_domains |-> Get(domain_info, "topic_domains", List(<<>>)),
    curator_summary |->
      [ representative |-> Slot(Str(translation), "-"),
        definition |-> Slot(Str(definition_translation), "-"),
        literals |-> StrList(Take(translated_synonyms, MAX_SYNONYMS_DISPLAY)),
        more |-> IF Len(translated_synonyms) > MAX_SYNONYMS_DISPLAY
                 THEN Len(translated_synonyms) - MAX_SYNONYMS_DISPLAY ELSE 0,
        example |-> IF Len(examples) > 0 THEN Str(examples[1]) ELSE Placeholder("none"),
        notes |-> notes,
        initial_count |->
          Len(Items(Get(initial_payload, "initial_translations", List(<<>>)))),
        expanded_count |->
          Len(Items(Get(expansion_payload, "expanded_synonyms", List(<<>>)))),
        filtered_count |-> Len(translated_synonyms),
        quality |-> Slot(Str(quality_status), "unknown"),
        issues_count |-> IF issues.t = "list" THEN Len(issues.v) ELSE 0 ],
    payload |->
      [ sense |-> sense_payload,
        definition |-> definition_payload,
        initial_translation |-> initial_payload,
        expansion |-> expansion_payload,
        filtering |-> filtering_payload,
        definition_quality |-> definition_quality_payload,
        calls |->
          [ sense |-> Call("sense_analysis"),
            definition |-> Call("definition_translation"),
            initial_translation |-> Call("initial_translation_call"),
            expansion |-> Call("expansion_call"),
            filtering |-> Call("filtering_call"),
            definition_quality |-> Call("definition_quality_call") ],
        logs |->
          [ sense |-> Log("sense_analysis"),
            definition |-> Log("definition_translation"),
            initial_translation |-> Log("initial_translation_call"),
            expansion |-> Log("expansion_call"),
            filtering |-> Log("filtering_call"),
            definition_quality |-> Log("definition_quality_call") ] ],
    raw_response |->
      FirstRaw(<<Call("definition_quality_call"), Call("filtering_call"),
                 Call("expansion_call"), Call("initial_translation_call"),
                 Call("definition_translation"), Call("sense_analysis")>>) ]

assemble_result ==
  /\ pc = "assemble_result"
  /\ visits' = [visits EXCEPT !["assemble_result"] = @ + 1]
  /\ state' = ("result" :> AssembledResult) @@ state
  /\ pc' = Edge("assemble_result")
  /\ UNCHANGED <<attempt, locals, max_expansion_iterations, invocations,
                 attempts_log, last_call, backend, deviations>>
  /\ UNCHANGED helper_vars

Next ==
  \/ TranslateSynset
  \/ analyse_sense
  \/ translate_definition
  \/ translate_all_lemmas
  \/ expand_synonyms
  \/ filter_synonyms
  \/ review_definition_quality
  \/ assemble_result

Spec == Init /\ [][Next]_vars

\* The runs against an unresponsive backend.
InitUnresponsive == Init /\ backend = "unresponsive"

SpecUnresponsive == InitUnresponsive /\ [][Next]_vars

\* ------------------------------------------------------------------------
\* _deduplicate_compounds on its own: the helper applied to a list of
\* candidate strings, and again to what it returned
\* ------------------------------------------------------------------------

\* The candidate strings: single words, compounds with and without a
\* single word among their tokens, upper case, surrounding blanks, and the
\* empty string.
Candidates ==
  { <<"a">>, <<"a", "b">>, <<"b", " ", "a">>, <<"b", " ", "a", "b">>,
    <<"A">>, <<" ", "a", " ">>, <<>>, <<"B", " ", "A">> }

WordLists == UNION { [1..n -> Candidates] : n \in 0..MaxWords }

InitDedup ==
  /\ InitPipeline
  /\ max_expansion_iterations = 1
  /\ backend = "erratic"
  /\ ws \in WordLists
  /\ cleaned = <<>>
  /\ passes = 0
  /\ NoDecode
  /\ NoBatch

\* pipeline._deduplicate_compounds(ws), then on its own output
Deduplicate ==
  /\ passes < 2
  /\ cleaned' = Append(cleaned,
                       deduplicate_compounds(IF passes = 0 THEN ws ELSE cleaned[passes]))
  /\ passes' = passes + 1
  /\ UNCHANGED ws
  /\ UNCHANGED pipeline_vars
  /\ UNCHANGED decode_vars
  /\ UNCHANGED batch_vars

NextDedup == Deduplicate

SpecDedup == InitDedup /\ [][NextDedup]_vars

\* ------------------------------------------------------------------------
\* _decode_llm_payload on its own.  A raw text is a sequence of tokens: the
\* reasoning tags, "fence" (the three backquotes of a code fence), the
\* braces, "k" (a member of an object; prose outside braces), "L" (the
\* text of a JSON list) and " ".
\* ------------------------------------------------------------------------

\* The first position from `from` on that holds token t, or 0.
Find(s, t, from) ==
  IF \E i \in from..Len(s) : s[i] = t
  THEN CHOOSE i \in from..Len(s) : s[i] = t /\ \A j \in from..(i - 1) : s[j] # t
  ELSE 0

\* re.sub of the reasoning blocks by the empty text: each block runs from
\* an opening tag to the first closing tag after it.
RECURSIVE RemoveThink(_)
RemoveThink(s) ==
  LET open == Find(s, "<think>", 1)
      close == IF open = 0 THEN 0 ELSE Find(s, "</think>", open + 1)
  IN IF close = 0 THEN s
     ELSE SubSeq(s, 1, open - 1) \o RemoveThink(SubSeq(s, close + 1, Len(s)))

\* re.search of a fenced block, from the first fence to the next one: the
\* candidates it contributes, fence_match.group(1).strip() if it matches.
FenceCandidates(s) ==
  LET open == Find(s, "fence", 1)
      close == IF open = 0 THEN 0 ELSE Find(s, "fence", open + 1)
  IN IF close = 0 THEN <<>> ELSE <<Strip(SubSeq(s, open + 1, close - 1))>>

\* re.search of a brace substring: from the first opening brace to the
\* last closing brace after it.
BraceCandidates(s) ==
  LET open == Find(s, "{", 1)
      closes == { i \in (open + 1)..Len(s) : s[i] = "}" }
  IN IF open = 0 \/ closes = {} THEN <<>>
     ELSE <<SubSeq(s, open, CHOOSE i \in closes : \A j \in closes : j <= i)>>

NotJson == [kind |-> "invalid"]

\* json.loads(candidate): whitespace between the tokens is insignificant;
\* the text of an object, the text of a list, or JSONDecodeError.
Loads(candidate) ==
  LET core == SelectSeq(candidate, LAMBDA t : t # " ") IN
  CASE core = <<"{", "k", "}">> -> [kind |-> "object", v |-> ("k" :> Num(1))]
    [] core = <<"L">> -> [kind |-> "list", v |-> List(<<Num(1)>>)]
    [] OTHER -> NotJson

\* json.loads(repair_json(candidate)) for candidate number i of the call:
\* json_repair is not part of the repository; the module is absent, or it
\* turns the candidates numbered in fixes, and no other, into an object.
NoRepair == [available |-> FALSE, fixes |-> {}]
Repairs == { NoRepair } \cup { [available |-> TRUE, fixes |-> f] : f \in SUBSET (1..3) }

LoadsRepaired(repair, i) ==
  IF i \in repair.fixes THEN [kind |-> "object", v |-> ("repaired" :> Num(i))]
  ELSE NotJson

\* isinstance(decoded, dict) taken for true of every decoded value.
IsInstanceOfAnything(parsed) == parsed.kind # "invalid"

\* isinstance(decoded, dict)
IsInstanceDict(parsed) == parsed.kind = "object"

\* The candidates of the call on a non-empty text, after cleaned.
DecodeCandidates(cleaned_text) ==
  FenceCandidates(cleaned_text) \o <<cleaned_text>> \o BraceCandidates(cleaned_text)

decode_llm_text(raw_text, repair) ==
  IF raw_text = <<>>
  THEN ("translation" :> Str(<<>>)) @@ ("examples" :> List(<<>>)) @@ ("notes" :> Null)
  ELSE
    LET cleaned_text == Strip(RemoveThink(raw_text))
        candidates == DecodeCandidates(cleaned_text)
        decodable == { i \in 1..Len(candidates) :
                         candidates[i] # <<>> /\ IsInstanceDict(Loads(candidates[i])) }
        repairable == { i \in 1..Len(candidates) :
                          /\ repair.available
                          /\ candidates[i] # <<>>
                          /\ IsInstanceDict(LoadsRepaired(repair, i)) }
    IN IF decodable # {}
       THEN Loads(candidates[CHOOSE i \in decodable : \A j \in decodable : i <= j]).v
       ELSE IF repairable # {}
       THEN LoadsRepaired(repair, CHOOSE i \in repairable : \A j \in repairable : i <= j).v
       ELSE ("translation" :> Str(cleaned_text))

\* The pieces raw texts are made of: a reasoning block, an opening tag that
\* is never closed, a fence, the text of an object, the text of a list,
\* prose, whitespace, and a brace that is never closed.
Segments ==
  { <<"<think>", "k", "</think>">>, <<"<think>">>, <<"fence">>, <<"{", "k", "}">>,
    <<"L">>, <<"k">>, <<" ">>, <<"{">> }

RECURSIVE Flatten(_)
Flatten(q) == IF q = <<>> THEN <<>> ELSE Head(q) \o Flatten(Tail(q))

RawTexts == { Flatten(q) : q \in UNION { [1..n -> Segments] : n \in 0..MaxSegments } }

InitDecode ==
  /\ InitPipeline
  /\ max_expansion_iterations = 1
  /\ backend = "erratic"
  /\ NoDedup
  /\ llm_text \in RawTexts
  /\ llm_payload = Null
  /\ json_repair = Null
  /\ NoBatch

\* LangGraphTranslationPipeline._decode_llm_payload(llm_text)
Decode ==
  /\ llm_payload = Null
  /\ \E repair \in Repairs :
       /\ json_repair' = repair
       /\ llm_payload' = decode_llm_text(llm_text, repair)
  /\ UNCHANGED llm_text
  /\ UNCHANGED pipeline_vars
  /\ UNCHANGED dedup_vars
  /\ UNCHANGED batch_vars

NextDecode == Decode

SpecDecode == InitDecode /\ [][NextDecode]_vars

\* ------------------------------------------------------------------------
\* translate and translate_stream: translate_synset on each synset of a
\* batch in turn, against the one backend of the pipeline object
\* ------------------------------------------------------------------------

Batches == UNION { [1..n -> Synsets] : n \in 0..MaxBatch }

InitBatch ==
  /\ InitPipeline
  /\ max_expansion_iterations = 1
  /\ backend = "erratic"
  /\ NoDedup
  /\ NoDecode
  /\ batch \in Batches
  /\ entry_point \in {"translate", "translate_stream"}
  /\ position = 1
  /\ finished = <<>>
  /\ received = <<>>
  /\ batch_pc = "running"

\* The loop takes the next synset: self._graph.invoke({"synset": synset})
\* starts on a state holding the synset alone.
NextSynset ==
  /\ batch_pc = "running"
  /\ pc = "START"
  /\ position <= Len(batch)
  /\ state' = ("synset" :> batch[position])
  /\ pc' = Edge("START")
  /\ UNCHANGED <<attempt, locals, invocations, max_expansion_iterations, visits,
                 attempts_log, last_call, backend, deviations>>
  /\ UNCHANGED <<dedup_vars, decode_vars, batch_vars>>

\* translate_synset returns result.to_dict(): translate appends it to the
\* list it is building, translate_stream yields it to its caller.  The
\* graph state and the locals of the run are gone.
ResultReturned ==
  /\ batch_pc = "running"
  /\ pc = "END"
  /\ finished' = Append(finished, state["result"])
  /\ received' = IF entry_point = "translate_stream"
                 THEN Append(received, state["result"]) ELSE received
  /\ position' = position + 1
  /\ pc' = "START"
  /\ state' = [k \in {} |-> Null]
  /\ locals' = NoLocals
  /\ visits' = [n \in NodeSet |-> 0]
  /\ invocations' = 0
  /\ attempts_log' = <<>>
  /\ last_call' = NoCall
  /\ UNCHANGED <<attempt, max_expansion_iterations, backend, deviations>>
  /\ UNCHANGED <<batch, entry_point, batch_pc>>
  /\ UNCHANGED <<dedup_vars, decode_vars>>

\* The loop is over: translate returns its list, the generator of
\* translate_stream is exhausted.
BatchReturns ==
  /\ batch_pc = "running"
  /\ pc = "START"
  /\ position > Len(batch)
  /\ batch_pc' = "returned"
  /\ received' = IF entry_point = "translate" THEN finished ELSE received
  /\ UNCHANGED <<batch, entry_point, position, finished>>
  /\ UNCHANGED pipeline_vars
  /\ UNCHANGED <<dedup_vars, decode_vars>>

\* An exception of translate_synset leaves the entry point: the list
\* translate was building is lost, what translate_stream has yielded stays
\* with its caller.
BatchRaises ==
  /\ batch_pc = "running"
  /\ pc = "raised"
  /\ batch_pc' = "raised"
  /\ UNCHANGED <<batch, entry_point, position, finished, received>>
  /\ UNCHANGED pipeline_vars
  /\ UNCHANGED <<dedup_vars, decode_vars>>

NextBatch ==
  \/ NextSynset
  \/ analyse_sense
  \/ translate_definition
  \/ translate_all_lemmas
  \/ expand_synonyms
  \/ filter_synonyms
  \/ review_definition_quality
  \/ assemble_result
  \/ ResultReturned
  \/ BatchReturns
  \/ BatchRaises

SpecBatch == InitBatch /\ [][NextBatch]_vars

\* ------------------------------------------------------------------------
\* Properties
\* ------------------------------------------------------------------------

\* The stages in the order the specification fixes, by node name, and the
\* state key under which each records its result.
FixedOrder ==
  <<"analyse_sense", "translate_definition", "translate_all_lemmas",
    "expand_synonyms", "filter_synonyms", "review_definition_quality",
    "assemble_result">>

KeyOf(node) ==
  CASE node = "analyse_sense" -> "sense_analysis"
    [] node = "translate_definition" -> "definition_translation"
    [] node = "translate_all_lemmas" -> "initial_translation_call"
    [] node = "expand_synonyms" -> "expansion_call"
    [] node = "filter_synonyms" -> "filtering_call"
    [] node = "review_definition_quality" -> "definition_quality_call"
    [] node = "assemble_result" -> "result"

\* The key of a stage's payload in TranslationResult.payload.
ResultKeyOf(node) ==
  CASE node = "analyse_sense" -> "sense"
    [] node = "translate_definition" -> "definition"
    [] node = "translate_all_lemmas" -> "initial_translation"
    [] node = "expand_synonyms" -> "expansion"
    [] node = "filter_synonyms" -> "filtering"
    [] node = "review_definition_quality" -> "definition_quality"

PositionOf(node) == CHOOSE i \in 1..Len(FixedOrder) : FixedOrder[i] = node

\* A payload _call_llm rejects: empty, or without a truthy value.
Rejected(payload) == DOMAIN payload = {} \/ \A k \in DOMAIN payload : ~Truthy(payload[k])

\* The latest _call_llm call has returned and attempts_log holds its passes.
CallReturned == attempt = 0 /\ Len(attempts_log) > 0

\* The expansion record of the run, once the expansion stage has returned.
HasRecord == "expansion_call" \in DOMAIN state
Record == state["expansion_call"].payload
IterationsRun == Record["iterations_run"].v
Converged == Record["converged"].v

\* The candidates the record attributes to iteration k.
AddedIn(k) ==
  { syn \in DOMAIN Record["synonym_provenance"].v :
      Record["synonym_provenance"].v[syn] = Num(k) }

\* C1: the stages run once each in the fixed order: a stage starts only
\* after every earlier stage has started once and recorded its result, no
\* stage starts twice, control moves from a stage only to its successor
\* (or out of the run by an exception), a model call is issued only by the
\* stage whose turn it is, and a run that ends has run all seven stages.
C1_StageOrderInv ==
  /\ \A i \in 1..Len(FixedOrder) :
       /\ visits[FixedOrder[i]] <= 1
       /\ visits[FixedOrder[i]] = 1 =>
            \A j \in 1..(i - 1) :
              visits[FixedOrder[j]] = 1 /\ KeyOf(FixedOrder[j]) \in DOMAIN state
       /\ KeyOf(FixedOrder[i]) \in DOMAIN state => visits[FixedOrder[i]] = 1
  /\ pc = "END" => \A i \in 1..Len(FixedOrder) : visits[FixedOrder[i]] = 1

C1_StageOrderStep ==
  /\ (pc' # pc /\ pc \in NodeSet) =>
       \/ pc' = "raised"
       \/ /\ KeyOf(pc) \in DOMAIN state'
          /\ pc' = IF PositionOf(pc) = Len(FixedOrder) THEN "END"
                   ELSE FixedOrder[PositionOf(pc) + 1]
  /\ (pc = "START" /\ pc' # pc) => pc' = FixedOrder[1]
  /\ invocations' # invocations =>
       /\ pc \in NodeSet
       /\ \A j \in 1..(PositionOf(pc) - 1) : KeyOf(FixedOrder[j]) \in DOMAIN state
       /\ KeyOf(pc) \notin DOMAIN state

C2_NoException == pc # "raised"

\* C3: the backend is invoked at most (5 single-call stages +
\* max_expansion_iterations) * (1 + retries) times in a run.
SingleCallNodes == NodeSet \ {"expand_synonyms", "assemble_result"}

SingleCallStages == Cardinality(SingleCallNodes)

C3_CallBound ==
  invocations <= (SingleCallStages + max_expansion_iterations) * (1 + retries)

\* C3 witness: a finished run that used the whole bound.
C3_Witness ==
  /\ pc = "END"
  /\ invocations = (SingleCallStages + max_expansion_iterations) * (1 + retries)

\* C4: a _call_llm call invokes the backend at most retries + 1 times, every
\* invocation but the last of a call was rejected, and a call that returns
\* on an accepted attempt returns that attempt's payload and raw response.
C4_RetryDiscipline ==
  /\ Len(attempts_log) <= retries + 1
  /\ \A i \in 1..(Len(attempts_log) - 1) : Rejected(attempts_log[i].payload)
  /\ attempt > 0 =>
       /\ Len(attempts_log) = attempt
       /\ Rejected(attempts_log[attempt].payload)
  /\ (CallReturned /\ ~Rejected(attempts_log[Len(attempts_log)].payload)) =>
       /\ last_call.call.payload = attempts_log[Len(attempts_log)].payload
       /\ last_call.call.raw_response = attempts_log[Len(attempts_log)].raw

\* C4 witness: a call that returned the payload of its third attempt.
C4_Witness ==
  /\ CallReturned
  /\ Len(attempts_log) = retries + 1
  /\ ~Rejected(attempts_log[Len(attempts_log)].payload)

\* C5: a _call_llm call returns exactly the sentinel payload if and only if
\* all of its retries + 1 attempts were rejected.
C5_SentinelIffExhausted ==
  CallReturned =>
    ( last_call.call.payload = Sentinel
      <=> /\ Len(attempts_log) = retries + 1
          /\ \A i \in 1..Len(attempts_log) : Rejected(attempts_log[i].payload) )

\* C6: in a finished run in which one single-call stage was answered with
\* unparseable text on every attempt (no call of the run was retried, so
\* its recorded answer is its only one) and every other call was answered
\* as the prompts ask and accepted, that stage's payload in the result
\* contains the error sentinel.
C6_UnparseableYieldsSentinel ==
  pc = "END" =>
    LET single == SingleCallNodes
        calls == state["expansion_call"].calls
    IN \A node \in single :
         ( /\ state[KeyOf(node)].raw_response.t = "text"
           /\ \A other \in single \ {node} :
                /\ state[KeyOf(other)].raw_response \in Expected
                /\ "error" \notin DOMAIN state[KeyOf(other)].payload
           /\ \A k \in 1..Len(calls) :
                /\ calls[k].raw_response \in Expected
                /\ "error" \notin DOMAIN calls[k].payload
           /\ invocations = Cardinality(single) + Len(calls) )
         => "error" \in DOMAIN state["result"].payload[ResultKeyOf(node)]

\* C7 as claimed: a synset without translatable content is answered without
\* invoking the backend.
C7_EmptySynsetNotTranslated ==
  (pc # "START" /\ NoTranslatableContent(state["synset"])) => invocations = 0

\* C7 amended: a synset without translatable content runs the same stages
\* as any other: sense analysis calls the backend unconditionally, and a
\* run that ends has run every stage and invoked the backend at least once
\* per model-calling stage.
ModelCallingStages == Cardinality(NodeSet \ {"assemble_result"})

C7_EmptySynsetStillTranslated ==
  (pc # "START" /\ NoTranslatableContent(state["synset"])) =>
    /\ pc # "analyse_sense" => invocations >= 1
    /\ pc = "END" =>
         /\ invocations >= ModelCallingStages
         /\ \A i \in 1..Len(FixedOrder) : visits[FixedOrder[i]] = 1

\* C7 witness: the run for such a synset ended with a translation.
C7_Witness ==
  /\ pc = "END"
  /\ NoTranslatableContent(state["synset"])
  /\ Truthy(state["result"].translation)

\* C8: 1 <= iterations_run <= max_expansion_iterations, and iterations_run
\* counts the iterations started (one recorded call each).
C8_IterationsWithinBudget ==
  HasRecord =>
    /\ 1 <= IterationsRun
    /\ IterationsRun <= max_expansion_iterations
    /\ IterationsRun = Len(state["expansion_call"].calls)

\* C8 witness: a record of a loop that used up a budget of more than one
\* iteration.
C8_Witness ==
  /\ HasRecord
  /\ max_expansion_iterations > 1
  /\ IterationsRun = max_expansion_iterations

\* C9: converged is true exactly when the last iteration run added no
\* candidate.
C9_ConvergedIffLastAddedNone ==
  HasRecord => (Converged <=> AddedIn(IterationsRun) = {})

InitialTranslations ==
  Get(PayloadOf("initial_translation_call"), "initial_translations", List(<<>>))

\* C11: across the iterations of the expansion stage the candidate set only
\* grows (every step of the stage keeps all candidates it had, so its size
\* never decreases), and every non-null initial translation is a member of
\* the final expanded_synonyms.
C11_GrowthStep ==
  (pc = "expand_synonyms" /\ locals.started) =>
    /\ locals.all_synonyms \subseteq locals'.all_synonyms
    /\ Cardinality(locals.all_synonyms) <= Cardinality(locals'.all_synonyms)

C11_SeedKept ==
  HasRecord =>
    /\ ItemSet(InitialTranslations) \ {Null} \subseteq ItemSet(Record["expanded_synonyms"])
    /\ locals.all_synonyms = ItemSet(Record["expanded_synonyms"])

C11_MonotoneGrowth == [](C11_SeedKept) /\ [][C11_GrowthStep]_vars

\* C11 witness: a record of two iterations that both added a candidate to a
\* seeded set.
C11_Witness ==
  /\ HasRecord
  /\ ItemSet(InitialTranslations) \ {Null} # {}
  /\ IterationsRun = 2
  /\ AddedIn(1) # {} /\ AddedIn(2) # {}

\* The candidates seeded from initial_translations, and the truthy
\* candidates iteration k's answer returned.
Seeded == ItemSet(InitialTranslations) \ {Null}

ReturnedIn(k) ==
  LET payload == state["expansion_call"].calls[k].payload IN
  IF "error" \in DOMAIN payload THEN {}
  ELSE { syn \in ItemSet(Get(payload, "expanded_synonyms", List(<<>>))) : Truthy(syn) }

\* C12: synonym_provenance is defined for exactly the members of
\* expanded_synonyms; a seeded candidate has provenance 0; a candidate has
\* provenance k >= 1 exactly when it was not seeded and iteration k was the
\* first to return it; no step of the stage changes a provenance once set.
C12_ProvenanceInv ==
  HasRecord =>
    LET sp == Record["synonym_provenance"].v IN
    /\ DOMAIN sp = ItemSet(Record["expanded_synonyms"])
    /\ \A syn \in Seeded : sp[syn] = Num(0)
    /\ \A syn \in DOMAIN sp :
         \A k \in 1..IterationsRun :
           sp[syn] = Num(k) <=>
             /\ syn \notin Seeded
             /\ syn \in ReturnedIn(k)
             /\ \A j \in 1..(k - 1) : syn \notin ReturnedIn(j)
    /\ \A syn \in DOMAIN sp : sp[syn].t = "num" /\ sp[syn].v \in 0..IterationsRun

C12_ProvenanceStep ==
  (pc = "expand_synonyms" /\ locals.started) =>
    \A syn \in DOMAIN locals.synonym_provenance :
      /\ syn \in DOMAIN locals'.synonym_provenance
      /\ locals'.synonym_provenance[syn] = locals.synonym_provenance[syn]

C12_Provenance == [](C12_ProvenanceInv) /\ [][C12_ProvenanceStep]_vars

\* C12 witness: a record with a seeded candidate, and a candidate added in
\* iteration 1 that iteration 2 returned again next to a new one.
C12_Witness ==
  /\ HasRecord
  /\ Seeded # {}
  /\ IterationsRun >= 2
  /\ \E syn \in AddedIn(1) : syn \in ReturnedIn(2)
  /\ AddedIn(2) # {}

\* The prompt of expansion iteration k, and whether it lists candidate syn.
PromptOf(k) == state["expansion_call"].calls[k].prompt

Listed(syn, prompt) ==
  prompt.base_synonyms.t = "list" /\ syn \in ItemSet(prompt.base_synonyms)

\* C13: the prompt of expansion iteration k lists every candidate added in
\* iterations 1..k-1, and differs from the prompt of iteration 1 whenever an
\* earlier iteration added a candidate.
C13_PromptFromAccumulatedSet ==
  HasRecord =>
    \A k \in 2..IterationsRun :
      \A j \in 1..(k - 1) :
        /\ \A syn \in AddedIn(j) : Listed(syn, PromptOf(k))
        /\ AddedIn(j) # {} => PromptOf(k) # PromptOf(1)

\* The literals of the result, and the literal a candidate becomes by
\* trimming and lower-casing.
TranslatedSynonyms == state["result"].translated_synonyms.v

Normalised(cand) == Str(Lower(Strip(PyStr(cand).v)))

\* C14: every element of the result's translated_synonyms is, up to
\* trimming and lower-casing, a member of the expansion record's
\* expanded_synonyms.
C14_SynonymsAreCandidates ==
  pc = "END" =>
    \A i \in 1..Len(TranslatedSynonyms) :
      \E cand \in ItemSet(Record["expanded_synonyms"]) :
        Normalised(cand) = Normalised(TranslatedSynonyms[i])

\* The gloss the definition-translation stage supplied (empty when it
\* supplied none), the revision the review supplied, and the review status.
GlossText ==
  LET gloss == Get(PayloadOf("definition_translation"), "definition_translation",
                   Str(<<>>))
  IN IF gloss.t = "null" THEN <<>> ELSE Strip(PyStr(gloss).v)

RevisionText ==
  LET revision == Get(PayloadOf("definition_quality_call"), "revised_definition", Null)
  IN IF revision.t = "null" THEN <<>> ELSE Strip(PyStr(revision).v)

ReviewStatus ==
  Lower(PyStr(Or(Get(PayloadOf("definition_quality_call"), "status", Str(<<>>)),
                 Str(<<>>))).v)

\* C15: the result's definition_translation is the review's revision when
\* the revision is non-empty and the status is "needs_revision" or the gloss
\* is empty, and the definition-translation stage's gloss in every other
\* case.
C15_RevisionAdoption ==
  pc = "END" =>
    state["result"].definition_translation =
      Str(IF Len(RevisionText) > 0
             /\ (ReviewStatus = NeedsRevision \/ Len(GlossText) = 0)
          THEN RevisionText ELSE GlossText)

\* The literals the filtering stage returned (trimmed, empty ones left
\* out), in the order returned.
FilteredLiterals ==
  LET filtered_synonyms ==
        Get(PayloadOf("filtering_call"), "filtered_synonyms", List(<<>>))
  IN IF filtered_synonyms.t = "list" THEN StrippedTruthy(filtered_synonyms.v)
     ELSE IF Truthy(filtered_synonyms) THEN <<Strip(PyStr(filtered_synonyms).v)>>
     ELSE <<>>

\* No literal is a multi-word entry holding a single-word literal as a token.
NoRedundantCompound(words) ==
  \A i \in 1..Len(words) :
    ~( HasSpace(words[i])
       /\ \E j \in 1..Len(words) :
            ~HasSpace(words[j]) /\ HasToken(Lower(words[i]), Lower(words[j])) )

\* C16: when no compound is redundant, translated_synonyms is the filtered
\* literals with duplicates removed (first occurrence kept, spelling and
\* letter case as returned), and translation is its first element, or the
\* empty string when it has none.
C16_SynonymsAsFiltered ==
  (pc = "END" /\ NoRedundantCompound(Dedupe(FilteredLiterals))) =>
    /\ state["result"].translated_synonyms = StrList(Dedupe(FilteredLiterals))
    /\ state["result"].translation =
         IF Len(Dedupe(FilteredLiterals)) > 0
         THEN Str(Dedupe(FilteredLiterals)[1]) ELSE Str(<<>>)

\* The examples the definition-translation stage returned (trimmed, empty
\* ones left out), in the order returned.
GatheredExamples ==
  LET definition_examples == Get(PayloadOf("definition_translation"), "examples", Null)
  IN IF definition_examples.t = "list" THEN StrippedTruthy(definition_examples.v)
     ELSE IF definition_examples.t = "str" /\ Len(Strip(definition_examples.v)) > 0
     THEN <<Strip(definition_examples.v)>>
     ELSE <<>>

\* The positions of the first occurrences of the items of a sequence.
FirstIndices(items) ==
  { i \in 1..Len(items) : \A j \in 1..(i - 1) : items[j] # items[i] }

\* The surviving items are the input's items at increasing positions of
\* first occurrences (lower-cased, for the synonyms).
OrderKept(surviving, items, lowered) ==
  \E f \in [1..Len(surviving) -> FirstIndices(items)] :
    /\ \A i \in 1..Len(surviving) : \A j \in (i + 1)..Len(surviving) : f[i] < f[j]
    /\ \A i \in 1..Len(surviving) :
         surviving[i] = Str(IF lowered THEN Lower(items[f[i]]) ELSE items[f[i]])

C18_Idempotent == passes = 2 => cleaned[2] = cleaned[1]

\* C18 witness: a second application to the output of a first one that
\* removed a compound, trimmed or lower-cased an entry, and kept a compound.
C18_Witness ==
  /\ passes = 2
  /\ Len(cleaned[1]) < Len(ws)
  /\ \E i \in 1..Len(cleaned[1]) : HasSpace(cleaned[1][i])
  /\ \E i \in 1..Len(ws) : ws[i] # Lower(Strip(ws[i]))

\* The space-delimited tokens of a string.
Tokens(w) ==
  { SubSeq(w, p[1], p[2]) :
      p \in { q \in (1..Len(w)) \X (1..Len(w)) :
                /\ q[1] <= q[2]
                /\ \A k \in q[1]..q[2] : w[k] # " "
                /\ q[1] = 1 \/ w[q[1] - 1] = " "
                /\ q[2] = Len(w) \/ w[q[2] + 1] = " " } }

\* An entry as the helper compares and returns it.
Entry(i) == Lower(Strip(ws[i]))

IsBlank(i) == Len(Strip(ws[i])) = 0

MultiWord(i) == HasSpace(Entry(i))

\* Entry i is a multi-word entry that holds a single-word entry of the
\* same input as a whole token.
RedundantAt(i) ==
  /\ MultiWord(i)
  /\ \E j \in 1..Len(ws) : ~MultiWord(j) /\ Entry(j) \in Tokens(Entry(i))

\* The entries at the positions kept, in input order.
EntriesAt(kept) ==
  [ k \in 1..Cardinality(kept) |->
      Entry(CHOOSE i \in kept : Cardinality({ j \in kept : j <= i }) = k) ]

ContractsOf(stage) == { e[2] : e \in { m \in schema_map : m[1] = stage } }

\* The fields of a contract that have no default.
RequiredFields(schema) == { f.name : f \in { g \in schema : g.required } }

\* The passes of the latest _call_llm call whose payload went through
\* validate_stage_payload.
ValidatedPasses ==
  { i \in 1..Len(attempts_log) : ContractsOf(attempts_log[i].stage) # {} }

\* C20: validate_stage_payload returns, for every decoded payload and
\* every stage contract, a mapping holding every required field of the
\* contract, with the empty string where the decoded payload lacks the
\* field and the payload's own value otherwise; and the pass in which a
\* payload is validated never ends the run with an exception.
C20_RequiredFieldsPresent ==
  \A i \in ValidatedPasses :
    LET e == attempts_log[i]
        decoded == decode_llm_payload(e.raw)
    IN \A schema \in ContractsOf(e.stage) :
         \A name \in RequiredFields(schema) :
           /\ name \in DOMAIN e.payload
           /\ e.payload[name] =
                IF name \in DOMAIN decoded THEN decoded[name] ELSE Str(<<>>)

C20_ValidationStepDoesNotRaise ==
  (invocations' # invocations /\ ContractsOf(attempts_log'[Len(attempts_log')].stage) # {})
    => pc' # "raised"

C20_ValidatorNeverRaises ==
  [](C20_RequiredFieldsPresent) /\ [][C20_ValidationStepDoesNotRaise]_vars

\* C20 witness: a run that reached its end after a pass whose decoded
\* payload failed its contract and lacked a required field, which the
\* validated payload holds as the empty string.
C20_Witness ==
  /\ pc = "END"
  /\ \E i \in ValidatedPasses :
       LET e == attempts_log[i]
           decoded == decode_llm_payload(e.raw)
       IN \E schema \in ContractsOf(e.stage) :
            /\ ~Validates(decoded, schema)
            /\ \E name \in RequiredFields(schema) :
                 name \notin DOMAIN decoded /\ e.payload[name] = Str(<<>>)

\* C21: when a decoded payload fails its contract, the repaired mapping
\* holds, for every field of the contract, the payload's value only if that
\* value has the declared type, and the fallback's empty or default value
\* otherwise.
C21_RepairKeepsOnlyWellTyped ==
  \A i \in ValidatedPasses :
    LET e == attempts_log[i]
        decoded == decode_llm_payload(e.raw)
    IN \A schema \in ContractsOf(e.stage) :
         ~Validates(decoded, schema) =>
           \A f \in schema :
             e.payload[f.name] =
               IF f.name \in DOMAIN decoded /\ TypeOK(f.ty, decoded[f.name])
               THEN decoded[f.name]
               ELSE Fallback(schema)[f.name]

\* What the candidates of a call come to, in the order fenced block,
\* cleaned text, brace substring, then the repaired form of each: number k
\* is the parse of candidate k, number Len(candidates) + k its repaired form.
OutcomeOf(candidates, repair, k) ==
  IF k <= Len(candidates) THEN Loads(candidates[k])
  ELSE IF repair.available THEN LoadsRepaired(repair, k - Len(candidates))
  ELSE NotJson

C23_FiveBackendCalls ==
  pc = "END" =>
    LET calls == state["expansion_call"].calls
    IN ( /\ \A node \in SingleCallNodes : "error" \notin DOMAIN state[KeyOf(node)].payload
         /\ Len(calls) = 1
         /\ "error" \notin DOMAIN calls[1].payload
         /\ AddedIn(1) = {}
         /\ invocations = Cardinality(SingleCallNodes) + Len(calls) )
       => invocations = 5

\* C24: translate and translate_stream hand their caller exactly one result
\* per synset of the batch, in input order, each the result of the run on
\* that synset; every run starts on a state holding its synset alone; and
\* the backend is invoked for a synset only when the runs on all earlier
\* synsets have returned.
C24_OneResultPerInput ==
  /\ batch_pc \in {"returned", "raised"} =>
       /\ Len(received) = Len(batch)
       /\ \A i \in 1..Len(batch) : received[i] = finished[i] /\ received[i].source = batch[i]
  /\ (batch_pc = "running" /\ pc \in NodeSet) =>
       /\ position <= Len(batch)
       /\ state["synset"] = batch[position]
       /\ Len(finished) = position - 1
       /\ DOMAIN state \subseteq {"synset"} \cup { KeyOf(node) : node \in { n \in NodeSet : visits[n] > 0 } }
  /\ (batch_pc = "running" /\ pc \notin NodeSet) => invocations = 0 \/ pc \in {"END", "raised"}

\* C25: the state of a run is append-only.  A step keeps the synset and
\* every entry the state holds, and a step that changes the state is the
\* start of the run, which enters the synset, or the return of a stage,
\* which adds one entry under the stage's own key, not held before.
C25_AppendStep ==
  /\ \A k \in DOMAIN state : k \in DOMAIN state' /\ state'[k] = state[k]
  /\ state' # state =>
       \/ pc = "START" /\ DOMAIN state' = {"synset"}
       \/ /\ pc \in NodeSet
          /\ KeyOf(pc) \notin DOMAIN state
          /\ DOMAIN state' = DOMAIN state \cup {KeyOf(pc)}
          /\ pc' = Edge(pc)

C25_AppendOnly == [][C25_AppendStep]_vars

\* C25 witness: a finished run, whose state holds the synset, the entry of
\* each of the six calling stages and the assembled result.
C25_Witness ==
  /\ pc = "END"
  /\ DOMAIN state = {"synset"} \cup { KeyOf(node) : node \in NodeSet }
  /\ Cardinality(DOMAIN state) = 8

\* C26: every accepted call of the expansion stage carries a payload that
\* went through the expansion contract: it holds expanded_synonyms, as a
\* list of strings or as the empty string of the repaired mapping.
C26_ExpansionCallsValidated ==
  HasRecord =>
    LET calls == state["expansion_call"].calls
    IN \A k \in 1..Len(calls) :
         "error" \notin DOMAIN calls[k].payload =>
           /\ "expanded_synonyms" \in DOMAIN calls[k].payload
           /\ \/ IsListStr(calls[k].payload["expanded_synonyms"])
              \/ calls[k].payload["expanded_synonyms"] = Str(<<>>)

\* C27: when a call of the expansion stage returns the sentinel error
\* payload, it is the last call of the stage; the record holds exactly the
\* seeded candidates and those the earlier iterations returned, each with
\* provenance 0 or the number of its iteration and with the rationale its
\* iteration gave it; and the stage hands over to filtering, whose prompt
\* is built from that record.
C27_RecordAfterError ==
  HasRecord =>
    LET calls == state["expansion_call"].calls
        failed == { k \in 1..Len(calls) : "error" \in DOMAIN calls[k].payload }
        earlier == UNION { ReturnedIn(j) : j \in 1..(Len(calls) - 1) }
        sp == Record["synonym_provenance"].v
    IN failed # {} =>
         /\ failed = {Len(calls)}
         /\ ItemSet(Record["expanded_synonyms"]) = Seeded \cup earlier
         /\ DOMAIN sp = Seeded \cup earlier
         /\ \A syn \in Seeded : sp[syn] = Num(0)
         /\ \A syn \in earlier \ Seeded :
              \E j \in 1..(Len(calls) - 1) :
                /\ sp[syn] = Num(j)
                /\ syn \in ReturnedIn(j)
                /\ LET rationale == Get(calls[j].payload, "rationale", Dict(EmptyDict))
                   IN syn \in DOMAIN rationale.v =>
                        /\ syn \in DOMAIN Record["rationale"].v
                        /\ Record["rationale"].v[syn] = rationale.v[syn]
         /\ pc \notin {"START", "analyse_sense", "translate_definition",
                       "translate_all_lemmas", "expand_synonyms"}
         /\ "filtering_call" \in DOMAIN state =>
              state["filtering_call"].prompt =
                render_filtering_prompt(Record, PayloadOf("sense_analysis"),
                                        PayloadOf("definition_translation"))

C27_HandOverStep ==
  (~HasRecord /\ "expansion_call" \in DOMAIN state') => pc' = "filter_synonyms"

C27_ErrorStopsExpansion == [](C27_RecordAfterError) /\ [][C27_HandOverStep]_vars

\* C27 witness: a run that reached filtering with a record of two
\* iterations, the first of which added a candidate with a rationale to a
\* seeded set and the second of which returned the sentinel.
C27_Witness ==
  /\ HasRecord
  /\ "filtering_call" \in DOMAIN state
  /\ Len(state["expansion_call"].calls) = 2
  /\ "error" \in DOMAIN state["expansion_call"].calls[2].payload
  /\ Seeded # {}
  /\ \E syn \in AddedIn(1) : syn \in DOMAIN Record["rationale"].v

\* C28: the translated_synonyms of a result holds no empty string and no
\* entry twice, whatever filtered_synonyms the filtering stage returned.
C28_NoEmptyNoDuplicate ==
  pc = "END" =>
    /\ \A i \in 1..Len(TranslatedSynonyms) : TranslatedSynonyms[i] # Str(<<>>)
    /\ \A i, j \in 1..Len(TranslatedSynonyms) :
         TranslatedSynonyms[i] = TranslatedSynonyms[j] => i = j

\* C29: the expanded_synonyms of the expansion record holds no empty string
\* and no null.
C29_NoEmptyCandidate ==
  HasRecord =>
    \A syn \in ItemSet(Record["expanded_synonyms"]) : syn # Str(<<>>) /\ syn # Null

\* C30: the result's definition_translation is the trimmed gloss of the
\* definition-translation stage, the trimmed revision of the quality review,
\* or the empty string; with a sentinel payload or a null or absent gloss,
\* and no revision adopted, it is the empty string.
C30_DefinitionFromGlossOrRevision ==
  pc = "END" =>
    LET definition_payload == PayloadOf("definition_translation")
        definition_translation == state["result"].definition_translation
    IN /\ definition_translation \in {Str(GlossText), Str(RevisionText), Str(<<>>)}
       /\ ( /\ \/ "definition_translation" \notin DOMAIN definition_payload
               \/ definition_payload["definition_translation"] = Null
            /\ definition_translation # Str(RevisionText) )
          => definition_translation = Str(<<>>)

====
